---- MODULE Spec2Model ----
(***************************************************************************)
(* A model of app.py: the polyline decoder (decode_polyline), the route    *)
(* assembly with its blockage annotation (get_safe_route), the text        *)
(* generation wrapper (analyze_emergency) and the form handler that runs   *)
(* on a submission (the `if submitted:` block).                            *)
(*                                                                         *)
(* Strings whose characters matter are sequences of character codes        *)
(* (ord): polylines, disaster types, the emergency description and the     *)
(* generated text.  Road names and messages, which the code only compares  *)
(* for equality, are TLA+ strings.  A coordinate (lat * 1e-5, lng * 1e-5)  *)
(* is the pair <<lat, lng>> of integers in units of 1e-5 degree.           *)
(***************************************************************************)
EXTENDS Integers, Sequences, FiniteSets, TLC

VARIABLES
    \* decode_polyline
    polyline_str,   \* the argument of decode_polyline
    source,         \* the coordinate sequence the string was encoded from, <<>> if none
    coordinates,    \* what decode_polyline returned
    previous,       \* what it returned for the string before it was cut
    cut,            \* whether polyline_str is a cut-off prefix of an earlier argument
    dstage,         \* "idle" | "input" | "decoded"
    \* get_safe_route
    response,       \* what requests.get delivers to get_safe_route
    route_type,     \* the disaster_type argument of get_safe_route
    route_result,   \* the outcome of get_safe_route
    rstage,         \* "idle" | "returned"
    \* the submitted handler
    pc,             \* "form" | "lookup" | "route" | "analyze" | "render" | "stopped" | "raised" | "done"
    emergency_desc, \* the text area
    disaster_type,  \* the select box
    shelters,       \* what get_nearby_resources returned
    route_data,     \* what get_safe_route returned
    generation,     \* what the text-generation service did for this submission
    analysis,       \* what analyze_emergency returned
    calls,          \* the outbound calls made, in order
    rendered,       \* the result elements shown, in order
    messages        \* st.warning / st.error messages shown, in order

dvars == <<polyline_str, source, coordinates, previous, cut, dstage>>
rvars == <<response, route_type, route_result, rstage>>
hvars == <<pc, emergency_desc, disaster_type, shelters, route_data, generation,
           analysis, calls, rendered, messages>>
vars == <<dvars, rvars, hvars>>

\* Python's None where a string may stand, and a variable not assigned yet.
None == "None"
Unset == [kind |-> "unset", type |-> "unset"]

----------------------------------------------------------------------------
(* decode_polyline *)

\* Bounds of the decoder's inputs.
MaxLen == 4
MaxPath == 2

\* Characters of the raw inputs: '?' (value 0, ends a group), '@' (value 1,
\* ends a group, odd), '_' and '`' (values 32 and 33, continue a group),
\* and ' ' (below the alphabet: value -31).
Alphabet == {63, 64, 95, 96, 32}

RECURSIVE Pow2(_)
Pow2(n) == IF n = 0 THEN 1 ELSE 2 * Pow2(n - 1)

\* result |= (b & 0x1f) << shift.  The bits of result lie below shift, so the
\* or is a sum; & 0x1f of a negative b is its residue modulo 32.
OrShifted(result, b, shift) == result + (b % 32) * Pow2(shift)

\* ~(result >> 1) if (result & 1) else (result >> 1)
Delta(result) ==
    IF result % 2 = 1 THEN -(result \div 2) - 1 ELSE result \div 2

\* ReadGroup, had it taken the end of the string for the end of a group.
RECURSIVE ReadGroupPartial(_, _, _, _)
ReadGroupPartial(s, index, shift, result) ==
    IF index >= Len(s)
    THEN [end |-> TRUE, index |-> index, result |-> result]
    ELSE LET b == s[index + 1] - 63
             r == result + (b % 32) * Pow2(shift)
         IN  IF b < 32
             THEN [end |-> TRUE, index |-> index + 1, result |-> r]
             ELSE ReadGroupPartial(s, index + 1, shift + 5, r)

\* The `while True` loop reading one variable-length group from position
\* index (0-based).  end = FALSE: the cursor ran past the end of the string.
RECURSIVE ReadGroup(_, _, _, _)
ReadGroup(s, index, shift, result) ==
    IF index >= Len(s)
    THEN [end |-> FALSE, index |-> index, result |-> result]
    ELSE LET b == s[index + 1] - 63
             r == OrShifted(result, b, shift)
         IN  IF b < 32
             THEN [end |-> TRUE, index |-> index + 1, result |-> r]
             ELSE ReadGroup(s, index + 1, shift + 5, r)

\* `for coord in [lat, lng]: ... coord += delta` binds coord to the VALUE of
\* lat, then of lng; the += rebinds the loop variable only.  The pair is
\* <<lat, lng>> as they stand after the for loop.
ForCoord(lat, lng, dlat, dlng) ==
    LET coord1 == lat + dlat
        coord2 == lng + dlng
    IN  <<lat, lng>>

\* The `while index < len(polyline_str)` loop.
RECURSIVE DecodeLoop(_, _, _, _, _)
DecodeLoop(s, index, lat, lng, acc) ==
    IF ~(index < Len(s)) THEN acc
    ELSE LET g1 == ReadGroup(s, index, 0, 0)
         IN  IF ~g1.end THEN acc
             ELSE LET g2 == ReadGroup(s, g1.index, 0, 0)
                  IN  IF ~g2.end THEN acc
                      ELSE LET ll == ForCoord(lat, lng, Delta(g1.result), Delta(g2.result))
                           IN  DecodeLoop(s, g2.index, ll[1], ll[2],
                                          Append(acc, <<ll[1], ll[2]>>))

decode_polyline(s) ==
    IF s = <<>> THEN <<>> ELSE DecodeLoop(s, 0, 0, 0, <<>>)

\* The reference encoder of the encoded polyline format: one signed value.
RECURSIVE EncodeChunks(_)
EncodeChunks(v) ==
    IF v >= 32 THEN <<(32 + (v % 32)) + 63>> \o EncodeChunks(v \div 32)
    ELSE <<v + 63>>

EncodeValue(d) == EncodeChunks(IF d < 0 THEN -(2 * d) - 1 ELSE 2 * d)

RECURSIVE EncodeFrom(_, _, _)
EncodeFrom(path, lat, lng) ==
    IF path = <<>> THEN <<>>
    ELSE LET p == Head(path)
         IN  EncodeValue(p[1] - lat) \o EncodeValue(p[2] - lng)
                 \o EncodeFrom(Tail(path), p[1], p[2])

Encode(path) == EncodeFrom(path, 0, 0)

\* The inputs: every string over Alphabet up to MaxLen, and the encodings of
\* every path of 1..MaxPath points, and of the documented example.
Strings == UNION {[1..n -> Alphabet] : n \in 0..MaxLen}
Points == {<<0, 0>>, <<1, -1>>, <<-16, 17>>, <<3850000, -12020000>>}
ExamplePath == << <<3850000, -12020000>>, <<4070000, -12095000>>,
                  <<4325200, -12645300>> >>
\* "_p~iF~ps|U_ulLnnqC_mqNvxq`@"
ExampleEncoded == <<95, 112, 126, 105, 70, 126, 112, 115, 124, 85, 95, 117,
                    108, 76, 110, 110, 113, 67, 95, 109, 113, 78, 118, 120,
                    113, 96, 64>>
Paths == UNION {[1..n -> Points] : n \in 1..MaxPath} \cup {ExamplePath}

DInit ==
    /\ polyline_str = <<>>
    /\ source = <<>>
    /\ coordinates = <<>>
    /\ previous = <<>>
    /\ cut = FALSE
    /\ dstage = "idle"

\* A caller holds the string a standard encoder made of a path.
EncodedInput ==
    /\ dstage = "idle"
    /\ \E p \in Paths :
          /\ source' = p
          /\ polyline_str' = Encode(p)
    /\ dstage' = "input"
    /\ UNCHANGED <<coordinates, previous, cut, rvars, hvars>>

\* A caller holds any string.
RawInput ==
    /\ dstage = "idle"
    /\ \E s \in Strings : polyline_str' = s
    /\ dstage' = "input"
    /\ UNCHANGED <<source, coordinates, previous, cut, rvars, hvars>>

\* decode_polyline(polyline_str)
Decode ==
    /\ dstage = "input"
    /\ coordinates' = decode_polyline(polyline_str)
    /\ dstage' = "decoded"
    /\ UNCHANGED <<polyline_str, source, previous, cut, rvars, hvars>>

\* The caller cuts the string to its first k characters and decodes again.
Truncate ==
    /\ dstage = "decoded"
    /\ ~cut
    /\ \E k \in 0..(Len(polyline_str) - 1) :
          polyline_str' = SubSeq(polyline_str, 1, k)
    /\ previous' = coordinates
    /\ cut' = TRUE
    /\ dstage' = "input"
    /\ UNCHANGED <<source, coordinates, rvars, hvars>>

----------------------------------------------------------------------------
(* get_safe_route *)

\* Bound of the routing responses: the steps of the first leg.
MaxSteps == 2

\* A key a JSON object does not hold.
Absent == "<absent>"

Has(d, k) == k \in DOMAIN d
Drop(d, k) == [x \in DOMAIN d \ {k} |-> d[x]]

\* Disaster types, as character codes.
flood == <<102, 108, 111, 111, 100>>
FLOOD == <<70, 76, 79, 79, 68>>
Flood == <<70, 108, 111, 111, 100>>
fire == <<102, 105, 114, 101>>
Fire == <<70, 105, 114, 101>>
earthquake == <<101, 97, 114, 116, 104, 113, 117, 97, 107, 101>>
Earthquake == <<69, 97, 114, 116, 104, 113, 117, 97, 107, 101>>
Tsunami == <<84, 115, 117, 110, 97, 109, 105>>
Other == <<79, 116, 104, 101, 114>>
Volcano == <<86, 111, 108, 99, 97, 110, 111>>

\* Lower, had the .lower() been left out.
LowerSame(s) == s

\* str.lower() on ASCII text.
Lower(s) == [i \in 1..Len(s) |-> IF s[i] \in 65..90 THEN s[i] + 32 ELSE s[i]]

\* simulated_blockages.get(key, [])
simulated_blockages(key) ==
    IF key = flood THEN <<"Main Street", "River Road">>
    ELSE IF key = fire THEN <<"Forest Highway", "Mountain Pass">>
    ELSE IF key = earthquake THEN <<"Bridge Approach", "Tunnel Road">>
    ELSE <<>>

\* road_name in <list>
InList(x, list) == \E i \in 1..Len(list) : list[i] = x

\* blockage = road_name in simulated_blockages.get(disaster_type.lower(), [])
Blockage(road_name, dtype) == InList(road_name, simulated_blockages(Lower(dtype)))

\* Alternative, had it been set for every step.
AlternativeAlways(blockage) == "Use Service Lane"

\* "Use Service Lane" if blockage else None
Alternative(blockage) == IF blockage THEN "Use Service Lane" ELSE None

\* f"{d/1000:.1f} km" and f"{t/60:.1f} min", for d a multiple of 100 m and t a
\* multiple of 6 s (the values of the responses below), where one decimal is
\* exact: the number of tenths and the unit.
FormatKm(d) == [tenths |-> d \div 100, unit |-> "km"]
FormatMin(t) == [tenths |-> t \div 6, unit |-> "min"]

\* One pass of the loop body: the record appended, or raised when a
\* subscript raises KeyError.
StepRecord(step, dtype) ==
    LET road_name == IF Has(step, "name") THEN step.name ELSE "Unnamed Road"
        blockage == Blockage(road_name, dtype)
    IN  IF ~Has(step, "maneuver") \/ ~Has(step.maneuver, "instruction")
             \/ ~Has(step, "distance") \/ ~Has(step, "duration")
        THEN [raised |-> TRUE]
        ELSE [raised |-> FALSE,
              record |-> [instruction |-> step.maneuver.instruction,
                          distance |-> FormatKm(step.distance),
                          duration |-> FormatMin(step.duration),
                          road |-> road_name,
                          blocked |-> blockage,
                          alternative |-> Alternative(blockage)]]

\* The for loop over the steps: the records built, and whether it ended in
\* a KeyError.
RECURSIVE Annotate(_, _, _)
Annotate(steps, dtype, acc) ==
    IF steps = <<>> THEN [raised |-> FALSE, route_steps |-> acc]
    ELSE LET rec == StepRecord(Head(steps), dtype)
         IN  IF rec.raised THEN [raised |-> TRUE, route_steps |-> acc]
             ELSE Annotate(Tail(steps), dtype, Append(acc, rec.record))

\* What get_safe_route ends with: a returned dict (kind "route" or "error")
\* or an exception that leaves it (kind "raise").  route_steps is the local
\* list as it stands at that point, entered whether the for loop was reached.
RouteError(msg, built, entered) ==
    [kind |-> "error", error |-> msg, route_steps |-> built, entered |-> entered]
RouteRaise(exc, built, entered) ==
    [kind |-> "raise", error |-> exc, route_steps |-> built, entered |-> entered]

\* route_data['routes'][0]['legs'][0]['steps'] and what follows it.
AssembleRoute(route_data_, dtype) ==
    IF ~Has(route_data_, "routes")
    THEN RouteError("Invalid route data format", <<>>, FALSE)
    ELSE IF route_data_.routes = <<>>
    THEN RouteRaise("IndexError", <<>>, FALSE)
    ELSE LET route == route_data_.routes[1]
         IN  IF ~Has(route, "legs")
             THEN RouteError("Invalid route data format", <<>>, FALSE)
             ELSE IF route.legs = <<>>
             THEN RouteRaise("IndexError", <<>>, FALSE)
             ELSE IF ~Has(route.legs[1], "steps")
             THEN RouteError("Invalid route data format", <<>>, FALSE)
             ELSE LET a == Annotate(route.legs[1].steps, dtype, <<>>)
                  IN  IF a.raised \/ ~Has(route, "distance")
                           \/ ~Has(route, "duration") \/ ~Has(route, "geometry")
                      THEN RouteError("Invalid route data format",
                                      a.route_steps, TRUE)
                      ELSE [kind |-> "route", error |-> None,
                            route_steps |-> a.route_steps, entered |-> TRUE,
                            distance |-> route.distance,
                            duration |-> route.duration,
                            steps |-> a.route_steps,
                            polyline |-> route.geometry]

\* route_data.get('code') != 'Ok'
NotOk(route_data_) == ~Has(route_data_, "code") \/ route_data_.code # "Ok"

\* get_safe_route(start_coord, end_coord, disaster_type) on the response r
\* of requests.get.
get_safe_route(r, dtype) ==
    IF r.transport # "ok" \/ ~r.http_ok
    THEN RouteError("Routing service error", <<>>, FALSE)
    ELSE IF r.json = "invalid"
    THEN IF r.json_error_is_request_exception
         THEN RouteError("Routing service error", <<>>, FALSE)
         ELSE RouteRaise("JSONDecodeError", <<>>, FALSE)
    ELSE IF r.json = "array"
    THEN RouteRaise("AttributeError", <<>>, FALSE)
    ELSE IF NotOk(r.body)
    THEN RouteError("No route found", <<>>, FALSE)
    ELSE AssembleRoute(r.body, dtype)

\* The routing responses.  A well-formed step, route and body, and the same
\* with one expected part missing.
RoadNames == {"Main Street", "River Road", "Forest Highway", "Mountain Pass",
              "Bridge Approach", "Tunnel Road", "main street", "Oak Ave", Absent}
StepDefects == {"no_maneuver", "no_instruction", "no_distance", "no_duration"}
RouteDefects == {"no_legs", "legs_empty", "no_steps", "no_route_distance",
                 "no_route_duration", "no_geometry"}
BodyDefects == {"no_routes", "routes_empty"}
Defects == {"none"} \cup StepDefects \cup RouteDefects \cup BodyDefects

\* "??" : one point
Geometry == <<63, 63>>

MkStep(name, defect) ==
    LET full == [name |-> name,
                 maneuver |-> [instruction |-> "Turn"],
                 distance |-> 1200, duration |-> 90]
        named == IF name = Absent THEN Drop(full, "name") ELSE full
    IN  IF defect = "no_maneuver" THEN Drop(named, "maneuver")
        ELSE IF defect = "no_instruction"
        THEN [named EXCEPT !.maneuver = Drop(named.maneuver, "instruction")]
        ELSE IF defect = "no_distance" THEN Drop(named, "distance")
        ELSE IF defect = "no_duration" THEN Drop(named, "duration")
        ELSE named

\* The steps named by names; a step defect is in the last one.
MkSteps(names, defect) ==
    [i \in 1..Len(names) |->
        MkStep(names[i], IF i = Len(names) THEN defect ELSE "none")]

MkRoute(names, defect) ==
    LET leg == [steps |-> MkSteps(names, defect)]
        full == [distance |-> 2400, duration |-> 180, geometry |-> Geometry,
                 legs |-> <<leg>>]
    IN  IF defect = "no_legs" THEN Drop(full, "legs")
        ELSE IF defect = "legs_empty" THEN [full EXCEPT !.legs = <<>>]
        ELSE IF defect = "no_steps" THEN [full EXCEPT !.legs = << Drop(leg, "steps") >>]
        ELSE IF defect = "no_route_distance" THEN Drop(full, "distance")
        ELSE IF defect = "no_route_duration" THEN Drop(full, "duration")
        ELSE IF defect = "no_geometry" THEN Drop(full, "geometry")
        ELSE full

MkBody(code, names, defect) ==
    LET full == [code |-> code, routes |-> << MkRoute(names, defect) >>]
        coded == IF code = Absent THEN Drop(full, "code") ELSE full
    IN  IF defect = "no_routes" THEN Drop(coded, "routes")
        ELSE IF defect = "routes_empty" THEN [coded EXCEPT !.routes = <<>>]
        ELSE coded

Delivered(http_ok, body) ==
    [transport |-> "ok", http_ok |-> http_ok, json |-> "object",
     json_error_is_request_exception |-> TRUE, body |-> body]
\* No response: requests raises for a timeout or a connection error.
Undelivered ==
    [transport |-> "error", http_ok |-> FALSE, json |-> "none",
     json_error_is_request_exception |-> TRUE, body |-> <<>>]
\* A response whose body is no JSON (response.json() raises; whether as a
\* RequestException depends on the requests version) or no JSON object.
InvalidJson(e) ==
    [transport |-> "ok", http_ok |-> TRUE, json |-> "invalid",
     json_error_is_request_exception |-> e, body |-> <<>>]
ArrayJson ==
    [transport |-> "ok", http_ok |-> TRUE, json |-> "array",
     json_error_is_request_exception |-> TRUE, body |-> <<>>]

NameLists == UNION {[1..n -> RoadNames] : n \in 0..MaxSteps}
Codes == {"Ok", "NoRoute", Absent}

\* A step defect needs a step to be in.
Bodies ==
    {MkBody(c, ns, d) : c \in Codes,
        ns \in NameLists, d \in Defects \ StepDefects}
    \cup {MkBody(c, ns, d) : c \in Codes,
            ns \in NameLists \ {<<>>}, d \in StepDefects}

RouteResponses ==
    {Delivered(h, b) : h \in BOOLEAN, b \in Bodies}
    \cup {Undelivered, ArrayJson} \cup {InvalidJson(e) : e \in BOOLEAN}

RouteTypes == {flood, FLOOD, Flood, fire, Fire, earthquake, Earthquake,
               Tsunami, Other, Volcano}

RInit ==
    /\ response = Unset
    /\ route_type = <<>>
    /\ route_result = Unset
    /\ rstage = "idle"

\* A call of get_safe_route, start to end.
GetSafeRoute ==
    /\ rstage = "idle"
    /\ \E r \in RouteResponses, dtype \in RouteTypes :
          /\ response' = r
          /\ route_type' = dtype
          /\ route_result' = get_safe_route(r, dtype)
    /\ rstage' = "returned"
    /\ UNCHANGED <<dvars, hvars>>

----------------------------------------------------------------------------
(* get_nearby_resources, get_ai_client, analyze_emergency *)

\* Bound of the emergency description's length.
MaxDesc == 2

\* Python values whose type the code's operators depend on.
PyStr(text) == [type |-> "str", text |-> text]
PyDict(items) == [type |-> "dict", items |-> items]
PyNone == [type |-> "NoneType"]

\* str.strip(): whitespace off both ends.  Whitespace is what str.isspace()
\* says of a character, the non-ASCII ones included.
IsSpace(c) ==
    c \in {9, 10, 11, 12, 13, 28, 29, 30, 31, 32, 133, 160, 5760,
           8192, 8193, 8194, 8195, 8196, 8197, 8198, 8199, 8200, 8201, 8202,
           8232, 8233, 8239, 8287, 12288}
RECURSIVE LStrip(_)
LStrip(s) == IF s # <<>> /\ IsSpace(Head(s)) THEN LStrip(Tail(s)) ELSE s
RECURSIVE RStrip(_)
RStrip(s) ==
    IF s # <<>> /\ IsSpace(s[Len(s)]) THEN RStrip(SubSeq(s, 1, Len(s) - 1)) ELSE s
Strip(s) == RStrip(LStrip(s))

\* pat in text, for two strings.
Contains(text, pat) ==
    \E i \in 1..(Len(text) - Len(pat) + 1) :
        SubSeq(text, i, i + Len(pat) - 1) = pat

\* get_nearby_resources(lat, lon) on the response r of requests.post: the
\* list returned and the st.error shown, or the exception that leaves it.
get_nearby_resources(r) ==
    IF r.transport # "ok" \/ ~r.http_ok
    THEN [kind |-> "list", elements |-> <<>>,
          messages |-> <<"Map data error: Failed to fetch resources">>]
    ELSE IF r.json = "invalid"
    THEN [kind |-> "list", elements |-> <<>>,
          messages |-> IF r.json_error_is_request_exception
                       THEN <<"Map data error: Failed to fetch resources">>
                       ELSE <<"Map data error: Invalid response from server">>]
    ELSE IF r.json = "array"
    THEN [kind |-> "raise", elements |-> <<>>, messages |-> <<>>]
    ELSE [kind |-> "list",
          elements |-> IF Has(r.body, "elements") THEN r.body.elements ELSE <<>>,
          messages |-> <<>>]

\* What the text-generation service does for one analyze_emergency call:
\* whether EuriaiClient(...) constructs, whether generate_completion raises,
\* and the value it returns.
Generation(client, raises, value) ==
    [client |-> client, raises |-> raises, value |-> value]

AnalysisError(msg, called, shown) ==
    [value |-> PyDict([error |-> msg]), called |-> called, messages |-> shown]

\* analyze_emergency(text, location, disaster_type): the value returned,
\* whether generate_completion was called, and what get_ai_client showed.
analyze_emergency(text, g) ==
    IF Strip(text) = <<>>
    THEN AnalysisError("Please describe your emergency situation", FALSE, <<>>)
    ELSE IF ~g.client
    THEN AnalysisError("AI service unavailable", FALSE, <<"AI Service Error">>)
    ELSE IF g.raises
    THEN AnalysisError("Analysis error", TRUE, <<>>)
    ELSE IF g.value.type = "dict" /\ Has(g.value.items, "choices")
    THEN LET choices == g.value.items.choices
         IN  IF choices = <<>> \/ ~Has(choices[1], "text")
             THEN AnalysisError("Analysis error", TRUE, <<>>)
             ELSE [value |-> choices[1].text, called |-> TRUE, messages |-> <<>>]
    ELSE [value |-> g.value, called |-> TRUE, messages |-> <<>>]

\* 'error' in v: a key of a dict, a substring of a str, a TypeError on None.
ErrorWord == <<101, 114, 114, 111, 114>>
ErrorIn(v) ==
    IF v.type = "dict" THEN [raised |-> FALSE, found |-> Has(v.items, "error")]
    ELSE IF v.type = "str" THEN [raised |-> FALSE, found |-> Contains(v.text, ErrorWord)]
    ELSE [raised |-> TRUE, found |-> FALSE]

\* The inputs of a submission.
\* ' ', a line break, a no-break space (U+00A0), and 'h'.
DescChars == {32, 10, 160, 104}
Descriptions == UNION {[1..n -> DescChars] : n \in 0..MaxDesc}
FormTypes == {Flood, Fire, Earthquake, Tsunami, Other}

Node == [lat |-> 129800, lon |-> 775900, tags |-> [name |-> "City Hall"]]
LookupBodies ==
    {[elements |-> <<Node>>],
     [elements |-> <<Drop(Node, "tags"), Node>>],
     [elements |-> <<Drop(Node, "lat")>>],
     [elements |-> <<>>],
     [remark |-> "runtime error"]}
LookupResponses ==
    {Delivered(h, b) : h \in BOOLEAN, b \in LookupBodies}
    \cup {Undelivered, ArrayJson} \cup {InvalidJson(e) : e \in BOOLEAN}

HandlerRouteResponses ==
    {Delivered(TRUE, MkBody("Ok", ns, "none")) :
        ns \in {<<>>, <<"Main Street", "Oak Ave">>, <<"Forest Highway">>}}
    \cup {Delivered(h, MkBody("NoRoute", <<>>, "none")) : h \in BOOLEAN}
    \cup {Delivered(TRUE, MkBody("Ok", <<"Oak Ave">>, d)) :
            d \in {"no_instruction", "routes_empty", "no_geometry"}}
    \cup {Undelivered}

\* "Stay calm", "Avoid errors", "Error"
StayCalm == <<83, 116, 97, 121, 32, 99, 97, 108, 109>>
AvoidErrors == <<65, 118, 111, 105, 100, 32, 101, 114, 114, 111, 114, 115>>
CapitalError == <<69, 114, 114, 111, 114>>
Texts == {StayCalm, AvoidErrors, CapitalError}
Mappings ==
    {[safety_actions |-> <<"Move to higher ground">>,
      route_warnings |-> <<"Bridge closed">>],
     [summary |-> "Evacuate"],
     [error |-> "quota exceeded"]}
Values == {PyStr(x) : x \in Texts} \cup {PyDict(m) : m \in Mappings}
Completions ==
    {PyDict([choices |-> << [text |-> v] >>]) : v \in Values}
    \cup {PyDict([choices |-> <<>>]),
          PyDict([choices |-> << [message |-> [content |-> "Stay calm"]] >>])}
    \cup Values \cup {PyNone}
Generations ==
    {Generation(FALSE, FALSE, PyNone), Generation(TRUE, TRUE, PyNone)}
    \cup {Generation(TRUE, FALSE, v) : v \in Completions}

----------------------------------------------------------------------------
(* the submitted handler *)

HInit ==
    /\ pc = "form"
    /\ emergency_desc = <<>>
    /\ disaster_type = Flood
    /\ shelters = Unset
    /\ route_data = Unset
    /\ generation = Unset
    /\ analysis = Unset
    /\ calls = <<>>
    /\ rendered = <<>>
    /\ messages = <<>>

Element(el, data) == [el |-> el, data |-> data]

\* Blank, had the .strip() been left out.
BlankEmpty(desc) == desc = <<>>

\* `if not emergency_desc.strip()`
Blank(desc) == Strip(desc) = <<>>

\* The user submits the form; a blank description is turned away.
Submit ==
    /\ pc = "form"
    /\ \E desc \in Descriptions, dtype \in FormTypes :
          /\ emergency_desc' = desc
          /\ disaster_type' = dtype
          /\ IF Blank(desc)
             THEN /\ messages' = Append(messages, "Please describe your emergency situation")
                  /\ pc' = "stopped"
             ELSE /\ messages' = messages
                  /\ pc' = "lookup"
    /\ UNCHANGED <<shelters, route_data, generation, analysis, calls, rendered,
                   dvars, rvars>>

\* `if not shelters: st.error(...); st.stop()`, then best_shelter['lat'] and
\* best_shelter['lon']: where the handler goes, and the message shown.
AfterLookup(res) ==
    IF res.kind = "raise" THEN [pc |-> "raised", shown |-> <<>>]
    ELSE IF res.elements = <<>>
    THEN [pc |-> "stopped",
          shown |-> <<"No emergency shelters found in your area!">>]
    ELSE IF ~Has(res.elements[1], "lat") \/ ~Has(res.elements[1], "lon")
    THEN [pc |-> "raised", shown |-> <<>>]
    ELSE [pc |-> "route", shown |-> <<>>]

\* Step 1: get_nearby_resources, and the first shelter's coordinates.
Lookup ==
    /\ pc = "lookup"
    /\ \E r \in LookupResponses :
          LET res == get_nearby_resources(r)
              chk == AfterLookup(res)
          IN  /\ shelters' = res
              /\ calls' = Append(calls, "lookup")
              /\ messages' = messages \o res.messages \o chk.shown
              /\ pc' = chk.pc
    /\ UNCHANGED <<emergency_desc, disaster_type, route_data, generation, analysis,
                   rendered, dvars, rvars>>

\* AfterRoute, had the check of 'error' been left out.
AfterRouteNoCheck(res) ==
    IF res.kind = "raise" THEN [pc |-> "raised", shown |-> <<>>]
    ELSE [pc |-> "analyze", shown |-> <<>>]

\* `if 'error' in route_data: st.error(...); st.stop()`
AfterRoute(res) ==
    IF res.kind = "raise" THEN [pc |-> "raised", shown |-> <<>>]
    ELSE IF res.kind = "error" THEN [pc |-> "stopped", shown |-> <<"Routing error">>]
    ELSE [pc |-> "analyze", shown |-> <<>>]

\* Step 2: get_safe_route(..., disaster_type.lower()) and the check of its
\* result.
Route ==
    /\ pc = "route"
    /\ \E r \in HandlerRouteResponses :
          LET res == get_safe_route(r, Lower(disaster_type))
              chk == AfterRoute(res)
          IN  /\ route_data' = res
              /\ calls' = Append(calls, "route")
              /\ messages' = messages \o chk.shown
              /\ pc' = chk.pc
    /\ UNCHANGED <<emergency_desc, disaster_type, shelters, generation, analysis,
                   rendered, dvars, rvars>>

\* ErrorCheck, had the check of 'error' been left out.
ErrorCheckNone(v) == [pc |-> "render", shown |-> <<>>]

\* `if 'error' in analysis: st.error(analysis['error']); st.stop()`: where
\* the handler goes, and the message shown.  A str cannot be subscripted by
\* 'error'.
ErrorCheck(v) ==
    LET e == ErrorIn(v)
    IN  IF e.raised THEN [pc |-> "raised", shown |-> <<>>]
        ELSE IF ~e.found THEN [pc |-> "render", shown |-> <<>>]
        ELSE IF v.type = "dict" THEN [pc |-> "stopped", shown |-> <<v.items.error>>]
        ELSE [pc |-> "raised", shown |-> <<>>]

\* Step 3: analyze_emergency and the check of its result.
Analyze ==
    /\ pc = "analyze"
    /\ \E g \in Generations :
          LET res == analyze_emergency(emergency_desc, g)
              chk == ErrorCheck(res.value)
          IN  /\ generation' = g
              /\ analysis' = res.value
              /\ calls' = IF res.called THEN Append(calls, "generate") ELSE calls
              /\ messages' = messages \o res.messages \o chk.shown
              /\ pc' = chk.pc
    /\ UNCHANGED <<emergency_desc, disaster_type, shelters, route_data, rendered,
                   dvars, rvars>>

\* best_shelter.get('tags', {}).get('name', 'Emergency Shelter')
Popup(shelter) ==
    IF Has(shelter, "tags") /\ Has(shelter.tags, "name") THEN shelter.tags.name
    ELSE "Emergency Shelter"

\* The elements shown up to the safety advisory's columns; the route line
\* `if 'polyline' in route_data`, the steps of route_data.get('steps', []).
RouteElements(best_shelter, route) ==
    <<Element("success_banner", <<>>),
      Element("map", Popup(best_shelter))>>
    \o (IF Has(route, "polyline")
        THEN <<Element("route_polyline", decode_polyline(route.polyline))>>
        ELSE <<>>)
    \o <<Element("directions", <<>>)>>
    \o (IF Has(route, "steps")
        THEN [i \in 1..Len(route.steps) |-> Element("step", route.steps[i])]
        ELSE <<>>)
    \o <<Element("safety_advisory", <<>>)>>

\* analysis.get(key, []) of a dict, one element per item.
Items(v, key, el) ==
    IF Has(v.items, key)
    THEN [i \in 1..Len(v.items[key]) |-> Element(el, v.items[key][i])]
    ELSE <<>>

\* Display Results: the banner, the map with the decoded route, the
\* directions, and the advisory, whose columns call analysis.get, which a
\* str does not have.
Render ==
    /\ pc = "render"
    /\ LET shown == RouteElements(shelters.elements[1], route_data)
       IN  IF analysis.type = "dict"
           THEN /\ rendered' = rendered \o shown
                       \o Items(analysis, "safety_actions", "safety_action")
                       \o Items(analysis, "route_warnings", "route_warning")
                /\ pc' = "done"
           ELSE /\ rendered' = rendered \o shown
                /\ pc' = "raised"
    /\ UNCHANGED <<emergency_desc, disaster_type, shelters, route_data, generation,
                   analysis, calls, messages, dvars, rvars>>

----------------------------------------------------------------------------
(* the specifications *)

Init == DInit /\ RInit /\ HInit

\* A submission of the form.
Next == Submit \/ Lookup \/ Route \/ Analyze \/ Render
Spec == Init /\ [][Next]_vars

\* Calls of get_safe_route.
NextRoute == GetSafeRoute
SpecRoute == Init /\ [][NextRoute]_vars

\* Calls of decode_polyline.
NextDecode == EncodedInput \/ RawInput \/ Decode \/ Truncate
SpecDecode == Init /\ [][NextDecode]_vars

----------------------------------------------------------------------------
(* the claims about decode_polyline, under SpecDecode *)

Decoded == dstage = "decoded"

\* C1: decoding the string a standard encoder made of a non-empty coordinate
\* sequence returns that sequence: as many coordinates, each equal to the
\* original on both axes.
C1_DecodeReproducesPath ==
    (Decoded /\ ~cut /\ source # <<>>) => coordinates = source

\* The groups that ended inside s, and the coordinates they complete.
Terminators(s) == Cardinality({i \in 1..Len(s) : s[i] - 63 < 32})
CompletePairs(s) == Terminators(s) \div 2

\* C7: for a string cut off at any point, decode_polyline returns a value
\* (it does not raise): one coordinate for each latitude and longitude pair
\* that ended before the cut, and these are the first coordinates of what it
\* returned for the string before the cut.
C7_TruncatedPrefix ==
    (Decoded /\ cut) =>
        /\ Len(coordinates) = CompletePairs(polyline_str)
        /\ Len(coordinates) <= Len(previous)
        /\ coordinates = SubSeq(previous, 1, Len(coordinates))

\* A string cut in the middle of a group, after one whole coordinate and
\* before the end of the next, has been decoded.
C7_Witness ==
    /\ Decoded /\ cut
    /\ polyline_str # <<>>
    /\ polyline_str[Len(polyline_str)] - 63 >= 32
    /\ Len(coordinates) = 1
    /\ Len(previous) = 2

----------------------------------------------------------------------------
(* the claims about get_safe_route, under SpecRoute *)

Returned == rstage = "returned"

\* C4: in every step record get_safe_route builds, alternative is set
\* exactly when blocked is true, and then it is "Use Service Lane".
C4_AlternativeIffBlocked ==
    Returned =>
        \A i \in 1..Len(route_result.route_steps) :
            LET st == route_result.route_steps[i]
            IN  /\ (st.alternative # None) <=> st.blocked
                /\ st.alternative # None => st.alternative = "Use Service Lane"

\* A route came back with a blocked step and a clear one.
C4_Witness ==
    /\ Returned
    /\ route_result.kind = "route"
    /\ \E i, j \in 1..Len(route_result.route_steps) :
          /\ route_result.route_steps[i].blocked
          /\ route_result.route_steps[i].alternative = "Use Service Lane"
          /\ ~route_result.route_steps[j].blocked
          /\ route_result.route_steps[j].alternative = None

\* The routing service reported a status, and it is not Ok.
ReportedNotOk ==
    /\ response.transport = "ok"
    /\ response.json = "object"
    /\ Has(response.body, "code")
    /\ response.body.code # "Ok"

\* C5: whenever the routing service reports a status other than Ok,
\* get_safe_route returns the 'No route found' error and builds no step
\* record.
C5_NotOkIsNoRouteFound ==
    (Returned /\ ReportedNotOk) =>
        /\ route_result.kind = "error"
        /\ route_result.error = "No route found"
        /\ ~route_result.entered
        /\ route_result.route_steps = <<>>

\* The shape the code reads: a first route with distance, duration, geometry
\* and a first leg, whose steps each hold a maneuver with an instruction, a
\* distance and a duration.
WellFormedStep(step) ==
    /\ Has(step, "maneuver") /\ Has(step.maneuver, "instruction")
    /\ Has(step, "distance") /\ Has(step, "duration")
WellFormed(body) ==
    /\ Has(body, "routes") /\ body.routes # <<>>
    /\ LET route == body.routes[1]
       IN  /\ Has(route, "distance") /\ Has(route, "duration")
           /\ Has(route, "geometry")
           /\ Has(route, "legs") /\ route.legs # <<>>
           /\ Has(route.legs[1], "steps")
           /\ \A i \in 1..Len(route.legs[1].steps) :
                 WellFormedStep(route.legs[1].steps[i])

\* A response with status Ok was delivered, and its shape is malformed.
MalformedOk ==
    /\ response.transport = "ok" /\ response.http_ok
    /\ response.json = "object"
    /\ Has(response.body, "code") /\ response.body.code = "Ok"
    /\ ~WellFormed(response.body)

\* C6: for every response with status Ok and a malformed shape,
\* get_safe_route returns the 'Invalid route data format' error: it neither
\* raises nor returns a route.
C6_MalformedIsInvalidFormat ==
    (Returned /\ MalformedOk) =>
        /\ route_result.kind = "error"
        /\ route_result.error = "Invalid route data format"

\* The blockage table as the claim gives it, by disaster type whatever its
\* case.
ClaimedBlocked(dtype) ==
    IF dtype \in {flood, Flood, FLOOD} THEN {"Main Street", "River Road"}
    ELSE IF dtype \in {fire, Fire} THEN {"Forest Highway", "Mountain Pass"}
    ELSE IF dtype \in {earthquake, Earthquake}
    THEN {"Bridge Approach", "Tunnel Road"}
    ELSE {}

\* C8: a step is blocked exactly when its road name is, letter for letter,
\* in the blockage set of the disaster type taken without regard to case;
\* a type the table does not hold blocks nothing.
C8_BlockedIffInTable ==
    Returned =>
        \A i \in 1..Len(route_result.route_steps) :
            LET st == route_result.route_steps[i]
            IN  st.blocked <=> (st.road \in ClaimedBlocked(route_type))

\* For "FLOOD", a step on Main Street is blocked and one on "main street"
\* is not.
C8_Witness ==
    /\ Returned
    /\ route_type = FLOOD
    /\ \E i, j \in 1..Len(route_result.route_steps) :
          /\ route_result.route_steps[i].road = "Main Street"
          /\ route_result.route_steps[i].blocked
          /\ route_result.route_steps[j].road = "main street"
          /\ ~route_result.route_steps[j].blocked

----------------------------------------------------------------------------
(* the claims about a submission, under Spec *)

Pipeline == <<"lookup", "route", "generate">>
Made(call) == \E i \in 1..Len(calls) : calls[i] = call

\* The lookup returned resources, without an error shown.
LookupSucceeded ==
    /\ shelters.kind = "list"
    /\ shelters.elements # <<>>
    /\ shelters.messages = <<>>

RouteSucceeded == route_data.kind = "route"

\* C2: the outbound calls are made in the order lookup, route, generation,
\* at most one of each; the routing call only after a lookup that returned
\* resources, the generation call only after a routing call that returned a
\* route.
C2_CallsInOrderFailFast ==
    /\ Len(calls) <= 3
    /\ calls = SubSeq(Pipeline, 1, Len(calls))
    /\ Made("route") => LookupSucceeded
    /\ Made("generate") => (LookupSucceeded /\ RouteSucceeded)

\* All three calls were made and the submission is over.
C2_Witness == calls = Pipeline /\ pc = "done"

\* The text-generation service failed: no client, an exception, or an error
\* result.
ErrorResult(v) == v.type = "dict" /\ Has(v.items, "error")
GenerationFailed ==
    \/ ~generation.client
    \/ generation.raises
    \/ ErrorResult(generation.value)

\* It gave a text or a mapping to show.
Usable(v) == v.type = "str" \/ (v.type = "dict" /\ ~Has(v.items, "error"))
GenerationSucceeded ==
    /\ generation.client /\ ~generation.raises
    /\ IF generation.value.type = "dict" /\ Has(generation.value.items, "choices")
       THEN LET choices == generation.value.items.choices
            IN  /\ choices # <<>>
                /\ Has(choices[1], "text")
                /\ Usable(choices[1].text)
       ELSE Usable(generation.value)

\* The text-generation step is over.
Analyzed == RouteSucceeded /\ pc \in {"render", "stopped", "raised", "done"}

\* C3: nothing of the result is rendered unless the lookup, the routing call
\* and the text generation all succeeded; and when a route was found but the
\* text generation failed, the submission stops on an error message with
\* nothing rendered.
C3_NoPartialResults ==
    /\ rendered # <<>> =>
          (LookupSucceeded /\ RouteSucceeded /\ Analyzed /\ GenerationSucceeded)
    /\ (Analyzed /\ GenerationFailed) =>
          (pc = "stopped" /\ rendered = <<>> /\ messages # <<>>)

\* A route with steps was found, the text generation raised, and the
\* submission has stopped.
C3_Witness ==
    /\ Analyzed
    /\ generation.client /\ generation.raises
    /\ route_data.steps # <<>>
    /\ pc = "stopped"

\* Whitespace and nothing else: the control and space characters of ASCII
\* and the Unicode spaces and line separators.
OnlyWhitespace(desc) ==
    \A i \in 1..Len(desc) :
        desc[i] \in (9..13) \cup (28..32) \cup {133, 160, 5760}
                      \cup (8192..8202) \cup {8232, 8233, 8239, 8287, 12288}

\* C9: a submission whose description is empty or only whitespace is turned
\* away with a message: no outbound call is made and nothing is rendered.
C9_BlankRejected ==
    (pc # "form" /\ OnlyWhitespace(emergency_desc)) =>
        /\ pc = "stopped"
        /\ calls = <<>>
        /\ rendered = <<>>
        /\ messages = <<"Please describe your emergency situation">>

\* A description of a no-break space and a line break was submitted.
C9_Witness == pc = "stopped" /\ emergency_desc = <<160, 10>>

\* The submission is over.
Over == pc \in {"stopped", "raised", "done"}

\* C10: whenever the lookup, the routing call and the text generation all
\* succeed, whatever analyze_emergency returned (a text, a text holding
\* "error", a mapping), the handler reaches the end of rendering: it neither
\* raises nor takes the error branch.
C10_SuccessRendersToEnd ==
    (Over /\ LookupSucceeded /\ RouteSucceeded /\ Analyzed /\ GenerationSucceeded)
        => pc = "done"

====
